---- MODULE Spec2Model ----
(***************************************************************************)
(* Client side of the vikebot game protocol (package vikebot):             *)
(* Join's handshake, the frame codec (write/read), the AEAD layer          *)
(* (encrypt/decrypt), the request/response correlator (trivialActionResp), *)
(* the Player commands and Game.Close.                                     *)
(*                                                                         *)
(* Byte strings are sequences of tokens: a JSON document, a base64 string, *)
(* the newline delimiter.  A base64 string wraps a binary blob; a blob is  *)
(* nonce ++ ciphertext; a ciphertext remembers the key and nonce it was    *)
(* sealed under and the plaintext byte string.                             *)
(***************************************************************************)
EXTENDS Integers, Sequences, FiniteSets, TLC

VARIABLES
    stage,      \* position of Join's control flow
    net,        \* the TCP connection: "none" (never dialled), "open", "closed"
    conn,       \* Game.conn: "nil" or "set"
    buf,        \* Game.buf:  "nil" or "set"
    gcm,        \* Game.gcm:  NoKey or the key the AEAD was created with
    pc,         \* Game.pc, a uint32 kept as two 16-bit limbs <<hi, lo>>
    Encrypted,  \* Game.Encrypted
    Player,     \* Game.Player: "nil" or "set"
    challenge,  \* challengeStr of this Join
    initialpc,  \* the pc the server sent in its initialpc packet (NoPc before)
    ret,        \* what Join returned: "none" (running), "session", "nil"
    crashed,    \* a panic unwound the caller
    nops,       \* operations issued on the returned Session
    nsucc,      \* commands that returned nil since the handshake
    nfail,      \* commands that returned an error since the handshake
    authFailed, \* some read failed to AEAD-open its frame
    last,       \* outcome of the latest operation
    codec,      \* a payload taken through write and then read
    callers,    \* goroutines that call Player methods on one Game at the same time
    inbox       \* frames the server sent that no read has consumed yet

vars == <<stage, net, conn, buf, gcm, pc, Encrypted, Player, challenge,
          initialpc, ret, crashed, nops, nsucc, nfail, authFailed, last, codec,
          callers, inbox>>

\* what Join, the commands and Close leave alone
aux == <<codec, callers, inbox>>

----------------------------------------------------------------------------
(* Bounds *)

\* operations (commands, closes) the caller issues on one Session
MaxOps == 2

----------------------------------------------------------------------------
(* uint32 arithmetic on two 16-bit limbs *)

Limb == 65536

NoPc == <<>>

U32(n) == <<(n \div Limb) % Limb, n % Limb>>

Inc(p) == IF p[2] = Limb - 1 THEN <<(p[1] + 1) % Limb, 0>> ELSE <<p[1], p[2] + 1>>

Plus(p, k) == <<(p[1] + ((p[2] + k) \div Limb)) % Limb, (p[2] + k) % Limb>>

MaxU32 == <<Limb - 1, Limb - 1>>

\* a <= b on uint32 values
Leq(a, b) == a[1] < b[1] \/ (a[1] = b[1] /\ a[2] <= b[2])

\* the values the server may choose for its initialpc packet
InitialPcs == {U32(7), <<Limb - 1, Limb - 2>>, MaxU32}

----------------------------------------------------------------------------
(* Bytes on the wire *)

NL == [k |-> "nl"]

NoKey == "nil"
Key == "K"
Keys == {Key, "X"}
Nonces == {1, 2}

\* io.ReadFull(rand.Reader, ...) failed: no nonce, no challenge
NoNonce == 0
Challenges == {1, 2}

NonceSize == 12
TagSize == 16

\* strconv.FormatUint(challenge, 10): the canonical decimal string
FormatUint(c) == [digits |-> c, canon |-> TRUE]

\* the strings "clienthello:<s>" and "serverhello:<s>"
Hello(tag, s) == [k |-> "text", tag |-> tag, s |-> s]

NoCipher == [k |-> "nil"]

\* a JSON object with the members the client decodes
Doc(t, p, e, o, c) ==
    [k |-> "doc", json |-> TRUE, type |-> t, pc |-> p, error |-> e, obj |-> o, cipher |-> c]

\* bytes that are not a JSON value
Garbage ==
    [k |-> "doc", json |-> FALSE, type |-> "", pc |-> NoPc, error |-> FALSE, obj |-> "null",
     cipher |-> NoCipher]

\* gcm.Seal(nil, nonce, plain, nil)
Seal(key, nonce, plain) == [key |-> key, nonce |-> nonce, pt |-> plain, intact |-> TRUE]

\* append(nonce, cipherBuf...)
Blob(n, nonce, ct) == [k |-> "blob", len |-> n, nonce |-> nonce, ct |-> ct]

\* length of nonce ++ ciphertext ++ tag for a one-byte plaintext
FullLen == NonceSize + TagSize + 1

Sealed(key, nonce, plain) == Blob(FullLen, nonce, Seal(key, nonce, plain))

\* a blob cut after n bytes
Truncated(n) == Blob(n, 0, Seal("X", 0, <<>>))

\* base64.RawStdEncoding
B64(blob) == [k |-> "b64", valid |-> TRUE, data |-> blob]

BadB64 == [k |-> "b64", valid |-> FALSE, data |-> Truncated(0)]

----------------------------------------------------------------------------
(* AEAD layer: game.go encrypt .. decryptStr *)

\* Game.encrypt: a fresh nonce is drawn, the plaintext sealed, the nonce put in front
encrypt(plain, nonce) ==
    IF gcm = NoKey
    THEN [out |-> "panic", cipher |-> Truncated(0)]
    ELSE IF nonce = NoNonce
    THEN [out |-> "err", cipher |-> Truncated(0)]
    ELSE [out |-> "ok", cipher |-> Sealed(gcm, nonce, plain)]

\* Game.encrypt64: the base64 bytes of encrypt
encrypt64(plain, nonce) ==
    LET c == encrypt(plain, nonce)
    IN  [out |-> c.out, cipher64 |-> <<B64(c.cipher)>>]

\* Game.encryptStr: the base64 string of encrypt
encryptStr(plain, nonce) ==
    LET c == encrypt(plain, nonce)
    IN  [out |-> c.out, cipher |-> B64(c.cipher)]

\* gcm.Open(nil, nonce, ciphertext, nil)
Open(nonce, n, ct) ==
    /\ n >= TagSize
    /\ ct.key = gcm
    /\ ct.nonce = nonce
    /\ ct.intact

\* Game.decrypt: cipher[0:NonceSize] panics on a slice shorter than the nonce
decrypt(cipher) ==
    IF gcm = NoKey \/ cipher.len < NonceSize
    THEN [out |-> "panic", err |-> "panic", plain |-> <<>>]
    ELSE IF Open(cipher.nonce, cipher.len - NonceSize, cipher.ct)
         THEN [out |-> "ok", err |-> "", plain |-> cipher.ct.pt]
         ELSE [out |-> "err", err |-> "open", plain |-> <<>>]

\* base64.RawStdEncoding.Decode of a byte string (the empty string decodes to no bytes)
Decode64(bytes) ==
    IF bytes = <<>>
    THEN [ok |-> TRUE, data |-> Truncated(0)]
    ELSE IF Len(bytes) = 1 /\ bytes[1].k = "b64" /\ bytes[1].valid
         THEN [ok |-> TRUE, data |-> bytes[1].data]
         ELSE [ok |-> FALSE, data |-> Truncated(0)]

\* Game.decrypt64
decrypt64(cipher64) ==
    LET d == Decode64(cipher64)
    IN  IF ~d.ok
        THEN [out |-> "err", err |-> "base64", plain |-> <<>>]
        ELSE decrypt(d.data)

\* Game.decryptStr
decryptStr(cipher) ==
    LET d == Decode64(<<cipher>>)
    IN  IF ~d.ok
        THEN [out |-> "err", err |-> "base64", plain |-> <<>>]
        ELSE decrypt(d.data)

----------------------------------------------------------------------------
(* Frame codec: game.go write, read *)

\* a write that never seals
writeNeverSealed(packet, nonce, wrOk) ==
    IF conn = "nil"
    THEN [out |-> "panic", err |-> "panic", line |-> <<>>, called |-> FALSE]
    ELSE IF ~wrOk
    THEN [out |-> "err", err |-> "write", line |-> <<>>, called |-> TRUE]
    ELSE [out |-> "ok", err |-> "", line |-> Append(packet, NL), called |-> TRUE]

\* Game.write: seal when Encrypted, append the delimiter, write to the transport.
\* wrOk says whether the transport accepts the bytes.
write(packet, nonce, wrOk) ==
    LET c == encrypt64(packet, nonce)
        payload == IF Encrypted THEN c.cipher64 ELSE packet
        none == [out |-> "panic", err |-> "panic", line |-> <<>>, called |-> FALSE]
    IN  IF Encrypted /\ c.out = "panic" THEN none
        ELSE IF Encrypted /\ c.out = "err"
        THEN [out |-> "err", err |-> "encryption failed", line |-> <<>>, called |-> FALSE]
        ELSE IF conn = "nil" THEN none
        ELSE IF ~wrOk
        THEN [out |-> "err", err |-> "write", line |-> <<>>, called |-> TRUE]
        ELSE [out |-> "ok", err |-> "", line |-> Append(payload, NL), called |-> TRUE]

\* json.Unmarshal: white space around the one JSON value is skipped
Unmarshal(bytes) ==
    LET s == SelectSeq(bytes, LAMBDA t : t.k # "nl")
    IN  IF Len(s) = 1 /\ s[1].k = "doc" /\ s[1].json
        THEN [ok |-> TRUE, doc |-> s[1]]
        ELSE [ok |-> FALSE, doc |-> Garbage]

\* Game.read: in is what ReadBytes('\n') yields, a line or an error
read(extractPt, in) ==
    LET stripped == SubSeq(in.line, 1, Len(in.line) - 1)
        d == decrypt64(stripped)
        bytes == IF Encrypted THEN d.plain ELSE in.line
        t == Unmarshal(bytes)
        base == [out |-> "ok", err |-> "", pt |-> "", buf |-> <<>>, called |-> TRUE,
                 authFail |-> FALSE, mode |-> IF Encrypted THEN "sealed" ELSE "plain"]
    IN  IF buf = "nil"
        THEN [base EXCEPT !.out = "panic", !.err = "panic", !.called = FALSE, !.mode = "none"]
        ELSE IF ~in.ok THEN [base EXCEPT !.out = "err", !.err = "read", !.mode = "none"]
        ELSE IF Encrypted /\ d.out = "panic" THEN [base EXCEPT !.out = "panic", !.err = "panic"]
        ELSE IF Encrypted /\ d.out = "err"
        THEN [base EXCEPT !.out = "err", !.err = "unsecure connection",
                          !.authFail = (d.err = "open")]
        ELSE IF ~extractPt THEN [base EXCEPT !.buf = bytes]
        ELSE IF ~t.ok THEN [base EXCEPT !.out = "err", !.err = "json"]
        ELSE [base EXCEPT !.pt = t.doc.type, !.buf = bytes]

----------------------------------------------------------------------------
(* Correlator: game.go trivialActionResp *)

\* the counter check as an echo check: the response must repeat the pc that was sent
pcCheckEcho(resp, pc0) ==
    IF ~Encrypted THEN [pc |-> pc0, err |-> ""]
    ELSE IF resp.pc = NoPc THEN [pc |-> pc0, err |-> "missing pc"]
    ELSE IF resp.pc # pc0 THEN [pc |-> pc0, err |-> "pc mismatch"]
    ELSE [pc |-> pc0, err |-> ""]

\* the counter check adopting the server's value when it differs
pcCheckResync(resp, pc0) ==
    IF ~Encrypted THEN [pc |-> pc0, err |-> ""]
    ELSE IF resp.pc = NoPc THEN [pc |-> Inc(pc0), err |-> "missing pc"]
    ELSE IF resp.pc # Inc(pc0) THEN [pc |-> resp.pc, err |-> "pc mismatch"]
    ELSE [pc |-> Inc(pc0), err |-> ""]

\* the counter check incrementing only once the response's pc was found right
pcCheckThenCount(resp, pc0) ==
    IF ~Encrypted THEN [pc |-> pc0, err |-> ""]
    ELSE IF resp.pc = NoPc THEN [pc |-> pc0, err |-> "missing pc"]
    ELSE IF resp.pc # Inc(pc0) THEN [pc |-> pc0, err |-> "pc mismatch"]
    ELSE [pc |-> Inc(pc0), err |-> ""]

\* lines 203-211: the counter check on a response of the expected type
pcCheck(resp, pc0) ==
    IF ~Encrypted THEN [pc |-> pc0, err |-> ""]
    ELSE IF resp.pc = NoPc THEN [pc |-> Inc(pc0), err |-> "missing pc"]
    ELSE IF resp.pc # Inc(pc0) THEN [pc |-> Inc(pc0), err |-> "pc mismatch"]
    ELSE [pc |-> Inc(pc0), err |-> ""]

\* a type check that surfaces the error field of a response of any other type
typeCheckAnyError(resp, pt) ==
    IF resp.type = pt THEN ""
    ELSE IF resp.error THEN "server error"
    ELSE "unexpected packet"

\* lines 195-201: the type check
typeCheck(resp, pt) ==
    IF resp.type = pt THEN ""
    ELSE IF resp.error /\ resp.type \in {"unknown", "forbidden"} THEN "server error"
    ELSE "unexpected packet"

\* Game.trivialActionResp(pt, packet) entered with g.pc = pc0
trivialActionResp(pt, packet, pc0, nonce, wrOk, in) ==
    LET w == write(packet, nonce, wrOk)
        r == read(FALSE, in)
        u == Unmarshal(r.buf)
        tc == typeCheck(u.doc, pt)
        pk == pcCheck(u.doc, pc0)
        base == [out |-> "ok", err |-> "", pc |-> pc0, buf |-> <<>>,
                 wrote |-> w.called, rd |-> FALSE, line |-> w.line,
                 typeOk |-> FALSE, respPc |-> NoPc, respErr |-> FALSE, authFail |-> FALSE,
                 mode |-> "none", pt |-> pt, respType |-> ""]
        got == [base EXCEPT !.rd = r.called, !.authFail = r.authFail, !.mode = r.mode]
        other == [got EXCEPT !.respType = u.doc.type, !.respErr = u.doc.error]
        typed == [other EXCEPT !.typeOk = TRUE, !.respPc = u.doc.pc, !.pc = pk.pc]
    IN  IF w.out # "ok" THEN [base EXCEPT !.out = w.out, !.err = w.err]
        ELSE IF r.out # "ok" THEN [got EXCEPT !.out = r.out, !.err = r.err]
        ELSE IF ~u.ok THEN [got EXCEPT !.out = "err", !.err = "json"]
        ELSE IF tc # "" THEN [other EXCEPT !.out = "err", !.err = tc]
        ELSE IF pk.err # "" THEN [typed EXCEPT !.out = "err", !.err = pk.err]
        ELSE [typed EXCEPT !.buf = r.buf]

\* Game.trivialAction
trivialAction(pt, packet, pc0, nonce, wrOk, in) ==
    trivialActionResp(pt, packet, pc0, nonce, wrOk, in)

----------------------------------------------------------------------------
(* Packets: packet.go and the fmt.Sprintf calls of player.go *)

\* a login packet that carries the counter
loginPacketCounted == Doc("login", pc, FALSE, "value", NoCipher)

\* loginPacket(roundticket)
loginPacket == Doc("login", NoPc, FALSE, "value", NoCipher)

\* clienthelloPacket(cipher)
clienthelloPacket(cipher) == Doc("clienthello", NoPc, FALSE, "value", cipher)

\* agreeconnPacket without its g.pc++
agreeconnPacketNoInc(pc0) ==
    [pc |-> pc0, packet |-> Doc("agreeconn", pc0, FALSE, "value", NoCipher)]

\* agreeconnPacket(g): g.pc++, then the packet carrying the new g.pc
agreeconnPacket(pc0) ==
    [pc |-> Inc(pc0), packet |-> Doc("agreeconn", Inc(pc0), FALSE, "value", NoCipher)]

\* {"type":"<pt>","pc":<g.pc>,"obj":...}
commandPacket(pt, p) == Doc(pt, p, FALSE, "value", NoCipher)

----------------------------------------------------------------------------
(* What the peer may put on the wire *)

ReadFail == [ok |-> FALSE, line |-> <<>>]

Line(l) == [ok |-> TRUE, line |-> l]

Tampered(ct) == [ct EXCEPT !.intact = FALSE]

\* a frame the peer sealed and encoded as the protocol asks
GoodFrame(d) == <<B64(Sealed(Key, 1, <<d>>)), NL>>

\* some document to put into the frames below
AnyDoc == Doc("other", NoPc, FALSE, "null", NoCipher)

\* frames that are not a sealed document under the session key and a matching nonce
BadFramesOf(d) ==
    { <<NL>>,
      <<d, NL>>,
      <<BadB64, NL>>,
      <<B64(Truncated(5)), NL>>,
      <<B64(Truncated(NonceSize)), NL>>,
      <<B64(Sealed("X", 1, <<d>>)), NL>>,
      <<B64(Blob(FullLen, 2, Seal(Key, 1, <<d>>))), NL>>,
      <<B64(Blob(FullLen, 1, Tampered(Seal(Key, 1, <<d>>)))), NL>>,
      <<B64(Sealed(Key, 1, <<Garbage>>)), NL>> }

BadFrames == BadFramesOf(AnyDoc)

ServerLines(docs) ==
    IF Encrypted
    THEN {GoodFrame(d) : d \in docs} \cup BadFrames
    ELSE {<<d, NL>> : d \in docs} \cup {<<Garbage, NL>>, <<BadB64, NL>>}

Inputs(docs) == {ReadFail} \cup {Line(l) : l \in ServerLines(docs)}

\* one request/response exchange as the random source and the transport let it
\* happen: no nonce can be drawn, or the write fails, or it succeeds and the read
\* yields in
Events(docs) ==
    {[nonce |-> NoNonce, wrOk |-> TRUE, in |-> ReadFail]}
    \cup {[nonce |-> n, wrOk |-> FALSE, in |-> ReadFail] : n \in Nonces}
    \cup {[nonce |-> n, wrOk |-> TRUE, in |-> i] : n \in Nonces, i \in Inputs(docs)}

NoPcOr(sent) == IF sent = NoPc THEN U32(0) ELSE sent

RespPcs(sent) ==
    IF sent = NoPc THEN {NoPc, U32(0)} ELSE {NoPc, sent, Inc(sent), Inc(Inc(sent))}

\* answers to a request of type pt that carried the counter sent
RespDocs(pt, sent) ==
    { Doc(pt, p, e, o, NoCipher) : p \in RespPcs(sent), e \in BOOLEAN, o \in {"null", "value"} }
    \cup { Doc(t, p, e, "null", NoCipher) :
              t \in {"unknown", "forbidden", "other"}, p \in RespPcs(sent) \ {sent, Inc(Inc(NoPcOr(sent)))},
              e \in BOOLEAN }

ChallengeStrs == { [digits |-> c, canon |-> b] : c \in Challenges, b \in BOOLEAN }

HelloCiphers ==
    { NoCipher, BadB64, B64(Truncated(0)), B64(Truncated(NonceSize)),
      B64(Blob(FullLen, 1, Tampered(Seal(Key, 1, <<Hello("serverhello", FormatUint(1))>>)))) }
    \cup { B64(Sealed(k, 1, <<Hello(tag, s)>>)) :
             k \in Keys, tag \in {"serverhello", "clienthello"}, s \in ChallengeStrs }

ServerHelloDocs ==
    { Doc(t, NoPc, e, "value", c) :
        t \in {"serverhello", "other"}, e \in BOOLEAN, c \in HelloCiphers }

InitialPcDocs ==
    { Doc(t, p, e, "null", NoCipher) :
        t \in {"initialpc", "other"}, p \in InitialPcs \cup {NoPc}, e \in BOOLEAN }

----------------------------------------------------------------------------
(* Outcome records *)

WireKind(line) ==
    IF line = <<>> THEN "none" ELSE IF line[1].k = "b64" THEN "sealed" ELSE "plain"

\* the "pc" member of the document a written frame carries
SentPc(line) ==
    IF line = <<>> THEN NoPc
    ELSE IF line[1].k = "b64" THEN line[1].data.ct.pt[1].pc
    ELSE line[1].pc

\* an operation that exchanged nothing
Outcome(op, out, err) ==
    [op |-> op, out |-> out, err |-> err, corr |-> err, pcBefore |-> pc, sent |-> NoPc,
     respPc |-> NoPc, typeOk |-> FALSE, respErr |-> FALSE, wrote |-> FALSE, rd |-> FALSE,
     wire |-> "none", rdWire |-> "none", authFail |-> FALSE, opened |-> FALSE,
     plain |-> <<>>, expected |-> "", respType |-> ""]

\* an operation that went through trivialActionResp with result r
Exchange(op, r, out, err) ==
    [Outcome(op, out, err) EXCEPT
        !.corr = r.err, !.sent = SentPc(r.line), !.respPc = r.respPc, !.typeOk = r.typeOk,
        !.respErr = r.respErr, !.wrote = r.wrote, !.rd = r.rd, !.wire = WireKind(r.line),
        !.rdWire = r.mode, !.authFail = r.authFail, !.expected = r.pt,
        !.respType = r.respType]

----------------------------------------------------------------------------
(* Join: game.go 219-359, one action per exchange with the peer *)

\* what read hands back before it was called
NoEcho ==
    [out |-> "none", err |-> "", pt |-> "", buf |-> <<>>, called |-> FALSE,
     authFail |-> FALSE, mode |-> "none"]

\* the goroutines of the host application that share one Game
Callers == {1, 2}

\* a goroutine that has not called a Player method yet
Idle ==
    [at |-> "idle", op |-> "none", pt |-> "", kind |-> "", tmp |-> NoPc, resp |-> Garbage,
     out |-> "none", err |-> ""]

\* no payload is on its way through the codec
NoCodec == [step |-> "none", payload |-> <<>>, frame |-> <<>>, echo |-> NoEcho]

Init ==
    /\ stage = "start"
    /\ net = "none"
    /\ conn = "nil"
    /\ buf = "nil"
    /\ gcm = NoKey
    /\ pc = U32(0)
    /\ Encrypted = FALSE
    /\ Player = "nil"
    /\ challenge = FormatUint(0)
    /\ initialpc = NoPc
    /\ ret = "none"
    /\ crashed = FALSE
    /\ nops = 0
    /\ nsucc = 0
    /\ nfail = 0
    /\ authFailed = FALSE
    /\ last = Outcome("none", "ok", "")
    /\ codec = NoCodec
    /\ callers = [c \in Callers |-> Idle]
    /\ inbox = <<>>

\* Join returns nil, err (or panics) in stage op
JoinAbort(op, o) ==
    /\ stage' = IF o.out = "panic" THEN "panic" ELSE "failed"
    /\ ret' = IF o.out = "panic" THEN ret ELSE "nil"
    /\ crashed' = (o.out = "panic")
    /\ last' = o

\* lines 219-271: round information, AEAD, dial, the Game object
JoinConnect(e) ==
    /\ stage = "start"
    /\ IF e # ""
       THEN /\ JoinAbort("connect", Outcome("connect", "err", e))
            /\ UNCHANGED <<net, conn, buf, gcm>>
       ELSE /\ net' = "open"
            /\ conn' = "set"
            /\ buf' = "set"
            /\ gcm' = Key
            /\ stage' = "login"
            /\ last' = Outcome("connect", "ok", "")
            /\ UNCHANGED <<ret, crashed>>
    /\ UNCHANGED <<pc, Encrypted, Player, challenge, initialpc, nops, nsucc, nfail,
                   authFailed>>
    /\ UNCHANGED aux

\* lines 277-281: the login exchange
JoinLogin(nonce, wrOk, in) ==
    /\ stage = "login"
    /\ \E r \in {trivialAction("login", <<loginPacket>>, pc, nonce, wrOk, in)} :
       \E o \in {Exchange("login", r, r.out, r.err)} :
           /\ pc' = r.pc
           /\ authFailed' = (authFailed \/ r.authFail)
           /\ IF r.out = "ok"
              THEN /\ stage' = "clienthello"
                   /\ last' = o
                   /\ UNCHANGED <<ret, crashed>>
              ELSE JoinAbort("login", o)
    /\ UNCHANGED <<net, conn, buf, gcm, Encrypted, Player, challenge, initialpc, nops,
                   nsucc, nfail>>
    /\ UNCHANGED aux

\* lines 283-298: the challenge is drawn, sealed and sent in a plain frame
JoinClientHello(c, nonce, wrOk) ==
    /\ stage = "clienthello"
    /\ \E challengeStr \in {FormatUint(c)} :
       \E e \in {encryptStr(<<Hello("clienthello", challengeStr)>>, nonce)} :
       \E w \in {write(<<clienthelloPacket(e.cipher)>>, nonce, wrOk)} :
       \E o \in {IF c = NoNonce THEN Outcome("clienthello", "err", "rand")
                 ELSE IF e.out # "ok" THEN Outcome("clienthello", e.out, "encryption failed")
                 ELSE [Outcome("clienthello", w.out, w.err) EXCEPT
                          !.wrote = w.called, !.wire = WireKind(w.line),
                          !.sent = SentPc(w.line)]} :
           /\ challenge' = IF c = NoNonce THEN challenge ELSE challengeStr
           /\ IF o.out = "ok"
              THEN /\ stage' = "serverhello"
                   /\ last' = o
                   /\ UNCHANGED <<ret, crashed>>
              ELSE JoinAbort("clienthello", o)
    /\ UNCHANGED <<net, conn, buf, gcm, pc, Encrypted, Player, initialpc, nops, nsucc,
                   nfail, authFailed>>
    /\ UNCHANGED aux

\* a check of the "serverhello:" prefix only
helloMatchesPrefix(plain, challengeStr) ==
    Len(plain) = 1 /\ plain[1].k = "text" /\ plain[1].tag = "serverhello"

\* line 325: the opened plaintext against "serverhello:" + challengeStr
helloMatches(plain, challengeStr) == plain = <<Hello("serverhello", challengeStr)>>

\* lines 300-330: the server hello is read and its cipher checked
serverHello(in) ==
    LET r == read(TRUE, in)
        u == Unmarshal(r.buf)
        d == decryptStr(u.doc.cipher)
        base == [Outcome("serverhello", "ok", "") EXCEPT !.rd = r.called, !.rdWire = r.mode]
        bad(err) == [base EXCEPT !.out = "err", !.err = err, !.corr = err]
    IN  IF r.out # "ok" THEN [base EXCEPT !.out = r.out, !.err = r.err, !.corr = r.err]
        ELSE IF r.pt # "serverhello" /\ u.doc.error THEN bad("server error")
        ELSE IF u.doc.cipher = NoCipher THEN bad("serverhello.Obj.Cipher == nil")
        ELSE IF d.out = "panic" THEN [base EXCEPT !.out = "panic", !.err = "panic"]
        ELSE IF d.out = "err" THEN [bad(d.err) EXCEPT !.authFail = (d.err = "open")]
        ELSE IF ~helloMatches(d.plain, challenge)
        THEN [bad("invalid plain text") EXCEPT !.opened = TRUE, !.plain = d.plain]
        ELSE [base EXCEPT !.typeOk = (r.pt = "serverhello"), !.opened = TRUE,
                          !.plain = d.plain]

JoinServerHello(in) ==
    /\ stage = "serverhello"
    /\ \E o \in {serverHello(in)} :
           /\ authFailed' = (authFailed \/ o.authFail)
           /\ IF o.out = "ok"
              THEN /\ Encrypted' = TRUE
                   /\ stage' = "initialpc"
                   /\ last' = o
                   /\ UNCHANGED <<ret, crashed>>
              ELSE /\ JoinAbort("serverhello", o)
                   /\ UNCHANGED Encrypted
    /\ UNCHANGED <<net, conn, buf, gcm, pc, Player, challenge, initialpc, nops, nsucc,
                   nfail>>
    /\ UNCHANGED aux

\* lines 332-347: the initialpc packet is read and its pc adopted
initialPc(in) ==
    LET r == read(TRUE, in)
        u == Unmarshal(r.buf)
        base == [Outcome("initialpc", "ok", "") EXCEPT !.rd = r.called, !.rdWire = r.mode,
                                                       !.authFail = r.authFail]
        bad(err) == [base EXCEPT !.out = "err", !.err = err, !.corr = err]
    IN  IF r.out # "ok" THEN [base EXCEPT !.out = r.out, !.err = r.err, !.corr = r.err]
        ELSE IF r.pt # "initialpc" THEN bad("expected initialpc packet")
        ELSE IF u.doc.pc = NoPc THEN bad("expected pc in initialpc packet")
        ELSE [base EXCEPT !.typeOk = TRUE, !.respPc = u.doc.pc, !.respErr = u.doc.error]

JoinInitialPc(in) ==
    /\ stage = "initialpc"
    /\ \E o \in {initialPc(in)} :
           /\ authFailed' = (authFailed \/ o.authFail)
           /\ IF o.out = "ok"
              THEN /\ pc' = o.respPc
                   /\ initialpc' = o.respPc
                   /\ stage' = "agreeconn"
                   /\ last' = o
                   /\ UNCHANGED <<ret, crashed>>
              ELSE /\ JoinAbort("initialpc", o)
                   /\ UNCHANGED <<pc, initialpc>>
    /\ UNCHANGED <<net, conn, buf, gcm, Encrypted, Player, challenge, nops, nsucc, nfail>>
    /\ UNCHANGED aux

\* lines 349-358: agreeconn, then the Player is allocated and the Game returned
JoinAgreeconn(nonce, wrOk, in) ==
    /\ stage = "agreeconn"
    /\ \E a \in {agreeconnPacket(pc)} :
       \E r \in {trivialAction("agreeconn", <<a.packet>>, a.pc, nonce, wrOk, in)} :
       \E o \in {Exchange("agreeconn", r, r.out, r.err)} :
           /\ pc' = r.pc
           /\ authFailed' = (authFailed \/ r.authFail)
           /\ IF r.out = "ok"
              THEN /\ Player' = "set"
                   /\ ret' = "session"
                   /\ stage' = "ready"
                   /\ last' = o
                   /\ UNCHANGED crashed
              ELSE /\ JoinAbort("agreeconn", o)
                   /\ UNCHANGED Player
    /\ UNCHANGED <<net, conn, buf, gcm, Encrypted, challenge, initialpc, nops, nsucc, nfail>>
    /\ UNCHANGED aux

----------------------------------------------------------------------------
(* Player commands: player.go *)

\* what each wrapper makes of the payload trivialActionResp handed back
decodeResp(kind, doc) ==
    CASE kind = "errorResp" -> IF doc.error THEN "server error" ELSE ""
      [] kind = "objResp" ->
            IF doc.error THEN "server error"
            ELSE IF doc.obj = "null" THEN "invalid response packet" ELSE ""
      [] kind = "healthResp" -> IF doc.obj = "null" THEN "invalid response packet" ELSE ""
      [] OTHER -> ""

\* a command that forgets its p.g.pc++
preIncrementNone(p) == p

\* p.g.pc++ at the head of every command
preIncrement(p) == Inc(p)

Answers(pt) == Events(RespDocs(pt, Inc(pc)))

\* p.g.pc++, the packet with the new pc, trivialActionResp, the wrapper's decoding
Command(op, pt, kind) ==
    /\ ret = "session"
    /\ ~crashed
    /\ nops < MaxOps
    /\ \E r \in { trivialActionResp(pt, <<commandPacket(pt, preIncrement(pc))>>,
                                     preIncrement(pc), ev.nonce, ev.wrOk, ev.in) :
                   ev \in Answers(pt) } :
       \E err \in {IF r.out = "ok" THEN decodeResp(kind, Unmarshal(r.buf).doc) ELSE r.err} :
       \E out \in {IF r.out = "ok" /\ err # "" THEN "err" ELSE r.out} :
           /\ pc' = r.pc
           /\ crashed' = (out = "panic")
           /\ nsucc' = IF out = "ok" THEN nsucc + 1 ELSE nsucc
           /\ nfail' = IF out = "ok" THEN nfail ELSE nfail + 1
           /\ authFailed' = (authFailed \/ r.authFail)
           /\ last' = Exchange(op, r, out, err)
    /\ nops' = nops + 1
    /\ UNCHANGED <<stage, net, conn, buf, gcm, Encrypted, Player, challenge, initialpc, ret>>
    /\ UNCHANGED aux

Rotate ==
    Command("Rotate", "rotate", "errorResp")

Move ==
    Command("Move", "move", "errorResp")

Attack ==
    Command("Attack", "attack", "objResp")

Radar ==
    Command("Radar", "radar", "objResp")

Watch ==
    Command("Watch", "watch", "objResp")

Scout ==
    Command("Scout", "scout", "objResp")

Defend ==
    Command("Defend", "defend", "none")

Undefend ==
    Command("Undefend", "undefend", "none")

GetHealth ==
    Command("GetHealth", "health", "healthResp")

Commands ==
    {"Rotate", "Move", "Attack", "Radar", "Watch", "Scout", "Defend", "Undefend", "GetHealth"}

----------------------------------------------------------------------------
(* Game.Close: game.go 44-52 *)

\* a Close that leaves the Encrypted flag as it was
CloseKeepingEncrypted(closeOk) ==
    /\ ret = "session"
    /\ ~crashed
    /\ nops < MaxOps
    /\ buf' = "nil"
    /\ gcm' = NoKey
    /\ Encrypted' = Encrypted
    /\ Player' = "nil"
    /\ conn' = "nil"
    /\ IF conn = "nil"
       THEN /\ crashed' = TRUE
            /\ last' = Outcome("Close", "panic", "panic")
            /\ UNCHANGED net
       ELSE /\ net' = "closed"
            /\ last' = Outcome("Close", IF closeOk THEN "ok" ELSE "err",
                               IF closeOk THEN "" ELSE "close")
            /\ UNCHANGED crashed
    /\ nops' = nops + 1
    /\ UNCHANGED <<stage, pc, challenge, initialpc, ret, nsucc, nfail, authFailed>>
    /\ UNCHANGED aux

\* Close: every field is reset, then the conn saved beforehand is closed
Close(closeOk) ==
    /\ ret = "session"
    /\ ~crashed
    /\ nops < MaxOps
    /\ buf' = "nil"
    /\ gcm' = NoKey
    /\ Encrypted' = FALSE
    /\ Player' = "nil"
    /\ conn' = "nil"
    /\ IF conn = "nil"
       THEN /\ crashed' = TRUE
            /\ last' = Outcome("Close", "panic", "panic")
            /\ UNCHANGED net
       ELSE /\ net' = "closed"
            /\ last' = Outcome("Close", IF closeOk THEN "ok" ELSE "err",
                               IF closeOk THEN "" ELSE "close")
            /\ UNCHANGED crashed
    /\ nops' = nops + 1
    /\ UNCHANGED <<stage, pc, challenge, initialpc, ret, nsucc, nfail, authFailed>>
    /\ UNCHANGED aux

----------------------------------------------------------------------------

Next ==
    \/ \E e \in {"", "resolver", "dial"} : JoinConnect(e)
    \/ \E ev \in Events(RespDocs("login", NoPc)) : JoinLogin(ev.nonce, ev.wrOk, ev.in)
    \/ \E c \in Challenges \cup {NoNonce}, n \in Nonces \cup {NoNonce}, w \in BOOLEAN :
            JoinClientHello(c, n, w)
    \/ \E in \in Inputs(ServerHelloDocs) : JoinServerHello(in)
    \/ \E in \in Inputs(InitialPcDocs) : JoinInitialPc(in)
    \/ \E ev \in Events(RespDocs("agreeconn", Inc(pc))) :
            JoinAgreeconn(ev.nonce, ev.wrOk, ev.in)
    \/ Rotate
    \/ Move
    \/ Attack
    \/ Radar
    \/ Watch
    \/ Scout
    \/ Defend
    \/ Undefend
    \/ GetHealth
    \/ \E ok \in BOOLEAN : Close(ok)

Spec == Init /\ [][Next]_vars

----------------------------------------------------------------------------
(* The frame codec on its own: a payload is written and the frame read back *)

\* byte strings without a newline that a caller may hand to write
PayloadTokens ==
    { loginPacket, commandPacket("rotate", U32(1)), Garbage,
      Hello("clienthello", FormatUint(1)) }

Payloads ==
    {<<>>} \cup {<<t>> : t \in PayloadTokens}
           \cup {<<t, u>> : t \in PayloadTokens, u \in PayloadTokens}

\* a Game as Join has it before (plain) and after (sealed) the serverhello check
InitCodec ==
    /\ Encrypted \in BOOLEAN
    /\ stage = IF Encrypted THEN "initialpc" ELSE "login"
    /\ net = "open"
    /\ conn = "set"
    /\ buf = "set"
    /\ gcm = Key
    /\ pc = U32(0)
    /\ Player = "nil"
    /\ challenge = FormatUint(0)
    /\ initialpc = NoPc
    /\ ret = "none"
    /\ crashed = FALSE
    /\ nops = 0
    /\ nsucc = 0
    /\ nfail = 0
    /\ authFailed = FALSE
    /\ last = Outcome("none", "ok", "")
    /\ \E p \in Payloads : codec = [NoCodec EXCEPT !.step = "start", !.payload = p]
    /\ callers = [c \in Callers |-> Idle]
    /\ inbox = <<>>

\* g.write(payload)
CodecWrite(nonce, wrOk) ==
    /\ codec.step = "start"
    /\ \E w \in {write(codec.payload, nonce, wrOk)} :
           codec' = [codec EXCEPT !.step = IF w.out = "ok" THEN "written" ELSE "failed",
                                  !.frame = w.line]
    /\ UNCHANGED <<stage, net, conn, buf, gcm, pc, Encrypted, Player, challenge, initialpc,
                   ret, crashed, nops, nsucc, nfail, authFailed, last, callers, inbox>>

\* g.read(extractPt) on the frame that write produced
CodecRead(extractPt) ==
    /\ codec.step = "written"
    /\ \E r \in {read(extractPt, Line(codec.frame))} :
           codec' = [codec EXCEPT !.step = "read", !.echo = r]
    /\ UNCHANGED <<stage, net, conn, buf, gcm, pc, Encrypted, Player, challenge, initialpc,
                   ret, crashed, nops, nsucc, nfail, authFailed, last, callers, inbox>>

NextCodec ==
    \/ \E n \in Nonces \cup {NoNonce}, w \in BOOLEAN : CodecWrite(n, w)
    \/ \E x \in BOOLEAN : CodecRead(x)

SpecCodec == InitCodec /\ [][NextCodec]_vars

----------------------------------------------------------------------------
(* Two goroutines calling Player methods on one Game.  Game has no lock, so   *)
(* the steps of their commands interleave; g.pc++ is a load and a store.      *)

\* every field of the Game and of the bookkeeping but the counter
session == <<stage, net, conn, buf, gcm, Encrypted, Player, challenge, initialpc, ret,
             crashed, nops, nsucc, nfail, authFailed, last>>

\* the Player methods the goroutines call
ConcCommands ==
    { [op |-> "Rotate", pt |-> "rotate", kind |-> "errorResp"],
      [op |-> "Radar", pt |-> "radar", kind |-> "objResp"] }

\* a server that follows the protocol answers a request with its type and its pc + 1
ServerAnswer(line) ==
    GoodFrame(Doc(line[1].data.ct.pt[1].type, Inc(SentPc(line)), FALSE, "value", NoCipher))

\* lines 206-210: resp.Pc against the value v that the goroutine sees in g.pc
pcCompare(resp, v) ==
    IF resp.pc = NoPc THEN "missing pc"
    ELSE IF resp.pc # v THEN "pc mismatch"
    ELSE ""

\* the method returns
Return(c, err) ==
    [callers[c] EXCEPT !.at = "done", !.out = IF err = "" THEN "ok" ELSE "err", !.err = err]

\* player.go:37 (and the like): the method is entered and p.g.pc++ loads g.pc
ConcEnter(c, cmd) ==
    /\ ret = "session"
    /\ callers[c].at = "idle"
    /\ callers' = [callers EXCEPT ![c] = [@ EXCEPT !.at = "inc", !.op = cmd.op,
                                                    !.pt = cmd.pt, !.kind = cmd.kind,
                                                    !.tmp = pc]]
    /\ UNCHANGED <<session, pc, codec, inbox>>

\* the store of a g.pc++ (player.go:37, game.go:205): the value loaded, plus one
ConcStore(c) ==
    /\ callers[c].at \in {"inc", "inc2"}
    /\ pc' = Inc(callers[c].tmp)
    /\ callers' = [callers EXCEPT ![c].at = IF @ = "inc" THEN "write" ELSE "check"]
    /\ UNCHANGED <<session, codec, inbox>>

\* player.go:38-39, game.go:179: the packet is built from g.pc and written; the
\* server's answer is on its way back
ConcWrite(c, nonce) ==
    /\ callers[c].at = "write"
    /\ \E w \in {write(<<commandPacket(callers[c].pt, pc)>>, nonce, TRUE)} :
           IF w.out = "ok"
           THEN /\ callers' = [callers EXCEPT ![c].at = "read"]
                /\ inbox' = Append(inbox, ServerAnswer(w.line))
           ELSE /\ callers' = [callers EXCEPT ![c] = Return(c, w.err)]
                /\ UNCHANGED inbox
    /\ UNCHANGED <<session, pc, codec>>

\* game.go:185-201: the next line of the shared bufio.Reader is read, decoded and
\* its type checked; a ReadBytes racing with another goroutine's may return torn bytes
ConcRead(c, torn) ==
    /\ callers[c].at = "read"
    /\ inbox # <<>>
    /\ torn => \E d \in Callers \ {c} : callers[d].at = "read"
    /\ \E r \in {read(FALSE, Line(IF torn THEN <<BadB64, NL>> ELSE Head(inbox)))} :
       \E u \in {Unmarshal(r.buf)} :
       \E err \in {IF r.out # "ok" THEN r.err
                   ELSE IF ~u.ok THEN "json"
                   ELSE typeCheck(u.doc, callers[c].pt)} :
           callers' = [callers EXCEPT ![c] = IF err # "" THEN Return(c, err)
                                             ELSE [@ EXCEPT !.at = "resp", !.resp = u.doc]]
    /\ inbox' = Tail(inbox)
    /\ UNCHANGED <<session, pc, codec>>

\* game.go:205: g.pc++ loads g.pc
ConcLoad(c) ==
    /\ callers[c].at = "resp"
    /\ callers' = [callers EXCEPT ![c] = [@ EXCEPT !.at = "inc2", !.tmp = pc]]
    /\ UNCHANGED <<session, pc, codec, inbox>>

\* game.go:206-213 and the wrapper's decoding: resp.Pc is compared with g.pc, which
\* is read again when reread and taken from the increment otherwise
ConcCheck(c, reread) ==
    /\ callers[c].at = "check"
    /\ \E e \in {pcCompare(callers[c].resp, IF reread THEN pc ELSE Inc(callers[c].tmp))} :
           callers' = [callers EXCEPT ![c] =
                          Return(c, IF e # "" THEN e
                                    ELSE decodeResp(callers[c].kind, callers[c].resp))]
    /\ UNCHANGED <<session, pc, codec, inbox>>

NextConc ==
    \/ \E e \in {"", "resolver", "dial"} : JoinConnect(e)
    \/ \E ev \in Events(RespDocs("login", NoPc)) : JoinLogin(ev.nonce, ev.wrOk, ev.in)
    \/ \E c \in Challenges \cup {NoNonce}, n \in Nonces \cup {NoNonce}, w \in BOOLEAN :
            JoinClientHello(c, n, w)
    \/ \E in \in Inputs(ServerHelloDocs) : JoinServerHello(in)
    \/ \E in \in Inputs(InitialPcDocs) : JoinInitialPc(in)
    \/ \E ev \in Events(RespDocs("agreeconn", Inc(pc))) :
            JoinAgreeconn(ev.nonce, ev.wrOk, ev.in)
    \/ \E c \in Callers, cmd \in ConcCommands : ConcEnter(c, cmd)
    \/ \E c \in Callers : ConcStore(c)
    \/ \E c \in Callers, n \in Nonces : ConcWrite(c, n)
    \/ \E c \in Callers, torn \in BOOLEAN : ConcRead(c, torn)
    \/ \E c \in Callers : ConcLoad(c)
    \/ \E c \in Callers, reread \in BOOLEAN : ConcCheck(c, reread)

SpecConc == Init /\ [][NextConc]_vars

----------------------------------------------------------------------------
(* Properties *)

Counted == Commands \cup {"agreeconn"}

C4_CounterRejection ==
    (last.op \in Counted /\ last.typeOk) =>
        /\ last.respPc = NoPc => (last.out = "err" /\ last.err = "missing pc")
        /\ (last.respPc # NoPc /\ last.respPc # Plus(last.pcBefore, 2)) =>
               (last.out = "err" /\ last.err = "pc mismatch")
        /\ last.err \in {"missing pc", "pc mismatch"} =>
               (pc # last.respPc /\ pc = Plus(last.pcBefore, 2))

\* C4 witness: a command turned down for a pc two ahead of the expected one
C4_Witness ==
    /\ last.op \in Commands
    /\ last.err = "pc mismatch"
    /\ last.respPc = Plus(last.pcBefore, 3)

\* C5: when the plaintext opened from the serverhello cipher is not exactly
\* "serverhello:<challenge>", Join fails, returns no Session and leaves Encrypted false.
C5_ChallengeVerified ==
    (last.op = "serverhello" /\ last.opened
        /\ last.plain # <<Hello("serverhello", challenge)>>) =>
            /\ stage = "failed"
            /\ ret = "nil"
            /\ last.out = "err"
            /\ ~Encrypted

\* C5 witness: the server echoed another challenge under the right key
C5_Witness ==
    /\ last.op = "serverhello"
    /\ last.opened
    /\ last.plain[1].tag = "serverhello"
    /\ last.plain[1].s.digits # challenge.digits
    /\ stage = "failed"

\* C6 as claimed: when Join fails after the transport was opened, the transport is
\* closed before Join returns and no Session is returned.
C6_AllOrNothing ==
    (stage = "failed" /\ last.op # "connect") => (net = "closed" /\ ret = "nil")

\* C7 as claimed: Close completes without crashing however often it is called and
\* leaves the Session closed.
C7_CloseIdempotent ==
    last.op = "Close" =>
        /\ last.out # "panic"
        /\ ~crashed
        /\ conn = "nil" /\ gcm = NoKey /\ ~Encrypted /\ Player = "nil"

\* C8 as claimed: a command issued after Close fails with an error, touches the
\* transport neither for writing nor for reading and leaves the counter alone.
C8_UseAfterClose ==
    (last.op \in Commands /\ conn = "nil") =>
        /\ last.out = "err"
        /\ ~last.wrote
        /\ ~last.rd
        /\ pc = last.pcBefore

\* C9 as claimed: once a command's read failed to AEAD-open its frame the Session is
\* closed, and no later command writes to or reads from the transport.
C9_AuthFailureFatal ==
    (authFailed /\ ret = "session") =>
        /\ net = "closed"
        /\ conn = "nil"
        /\ (last.op \in Commands /\ ~last.authFail) => (~last.wrote /\ ~last.rd)

\* C10 as claimed: a command whose response has the expected type and pc and a
\* non-null error field returns a failure.
C10_ErrorResurfaced ==
    (last.op \in Commands /\ last.typeOk /\ last.corr = "" /\ last.respErr) =>
        last.out = "err"

\* C12: Encrypted is true only once the opened serverhello plaintext has matched
\* "serverhello:<challenge>"; the login, clienthello and serverhello frames are
\* written and read plain, and every frame from initialpc on (initialpc, agreeconn,
\* the commands) is written sealed and read through the AEAD.
C12_EncryptionSwitch ==
    /\ Encrypted => stage \notin {"start", "login", "clienthello", "serverhello"}
    /\ (stage = "failed" /\ Encrypted) => last.op \in {"initialpc", "agreeconn"}
    /\ (last.op = "serverhello" /\ Encrypted) =>
           (last.opened /\ last.plain = <<Hello("serverhello", challenge)>>)
    /\ (last.op = "serverhello" /\ last.out # "ok") => ~Encrypted
    /\ last.op \in {"connect", "login", "clienthello", "serverhello"} =>
           (last.wire \in {"none", "plain"} /\ last.rdWire \in {"none", "plain"})
    /\ last.op \in {"initialpc"} \cup Counted =>
           (last.wire \in {"none", "sealed"} /\ last.rdWire \in {"none", "sealed"})

\* C12 witness: a command was written sealed and its answer read through the AEAD
\* after a handshake whose first three frames were plain
C12_Witness ==
    /\ last.op \in Commands
    /\ last.wire = "sealed"
    /\ last.rdWire = "sealed"
    /\ last.out = "ok"
    /\ Encrypted

\* C13 as claimed: Join gets past the serverhello stage only when the envelope read
\* after clienthello has type "serverhello".
C13_ServerHelloTyped ==
    (last.op = "serverhello" /\ last.out = "ok") => last.typeOk

\* C14 as claimed: Join gets past the login stage only when the login response has
\* type "login" and carries no error.
C14_LoginChecked ==
    (last.op = "login" /\ last.out = "ok") => (last.typeOk /\ ~last.respErr)

\* C16 as claimed: a read in encrypted mode hands the caller a payload or an error
\* for every line received, the empty line and a line that decodes to fewer bytes
\* than a nonce included, and never crashes.
C16_MalformedFrameReported ==
    last.rdWire = "sealed" => (last.out \in {"ok", "err"} /\ ~crashed)

\* C17 (as amended): Encrypted implies that the cipher instance is non-null; in a
\* returned Session, and in Join from the receipt of initialpc on, it also implies
\* that the counter was initialized from the server's initialpc. Join sets Encrypted
\* before it reads initialpc, so between the two the flag is true while the counter
\* still holds its zero value.
C17_SessionInvariant ==
    /\ Encrypted => gcm # NoKey
    /\ (Encrypted /\ (ret = "session" \/ stage \in {"agreeconn", "ready"})) =>
           initialpc # NoPc
    /\ (Encrypted /\ initialpc = NoPc) =>
           /\ pc = U32(0)
           /\ ret # "session"
           /\ stage = "initialpc" \/ (stage \in {"failed", "panic"} /\ last.op = "initialpc")
    /\ stage = "agreeconn" => (Encrypted /\ pc = initialpc)

\* C17 witness: a returned Session with the flag set, the cipher in place and the
\* counter derived from a non-zero initialpc
C17_Witness ==
    /\ Encrypted
    /\ ret = "session"
    /\ gcm = Key
    /\ initialpc # NoPc
    /\ initialpc # U32(0)
    /\ pc = Plus(initialpc, 2)

\* C17 as claimed: in every state, those inside Join included, Encrypted implies a
\* non-null cipher and a counter initialized from initialpc
C17_AsClaimed ==
    Encrypted => (gcm # NoKey /\ initialpc # NoPc)

\* C18: a response whose type differs from the expected one is never accepted; the
\* call fails with the server's error message when the response carries an error
\* field and has type "unknown" or "forbidden", and with "unexpected packet" otherwise.
C18_TypeCheck ==
    (last.respType # "" /\ last.respType # last.expected) =>
        /\ last.out = "err"
        /\ ~last.typeOk
        /\ last.err = IF last.respErr /\ last.respType \in {"unknown", "forbidden"}
                      THEN "server error"
                      ELSE "unexpected packet"

\* C18 witness: a command answered by a "forbidden" envelope without an error field
\* fails with "unexpected packet"
C18_Witness ==
    /\ last.op \in Commands
    /\ last.respType = "forbidden"
    /\ ~last.respErr
    /\ last.err = "unexpected packet"

\* C19: the login and the clienthello/serverhello exchanges leave the counter at its
\* zero value and their frames carry no pc, whatever pc the login response holds;
\* receipt of initialpc sets the counter to the received value without increment;
\* the agreeconn request is the first frame that carries a counter.
C19_CounterBeforeEncryption ==
    /\ last.op \in {"connect", "login", "clienthello", "serverhello"} =>
           (pc = U32(0) /\ pc = last.pcBefore /\ last.sent = NoPc /\ initialpc = NoPc)
    /\ (last.op = "initialpc" /\ last.out = "ok") =>
           (pc = last.respPc /\ initialpc = last.respPc /\ last.sent = NoPc)
    /\ (last.op = "initialpc" /\ last.out # "ok") => pc = U32(0)
    /\ last.sent # NoPc => last.op \in Counted
    /\ (last.op = "agreeconn" /\ last.wire # "none") => last.sent = Plus(initialpc, 1)

\* C19 witness: the counter was still zero when the initialpc frame came, and the
\* value of the frame was adopted as it came
C19_Witness ==
    /\ last.op = "initialpc"
    /\ last.out = "ok"
    /\ pc = MaxU32
    /\ last.pcBefore = U32(0)

\* C20 as claimed: whatever initialpc the server chose, the counter never decreases
\* and never wraps around: no counted exchange leaves it below the value it had
\* before, and in a Session it is never below initialpc.
C20_CounterMonotonic ==
    /\ last.op \in Counted => Leq(last.pcBefore, pc)
    /\ ret = "session" => Leq(initialpc, pc)

\* C15 as claimed: in plain and in encrypted mode alike, reading the frame that
\* write produced for a payload without newline succeeds and returns exactly that
\* payload, the delimiter stripped.
C15_FrameRoundTrip ==
    codec.step = "read" =>
        /\ codec.echo.out = "ok" => codec.echo.buf = codec.payload
        /\ codec.echo.out = "err" => codec.echo.err = "json"
        /\ codec.echo.out # "panic"

\* C11 as claimed: the round-trips of two goroutines that call commands on one
\* Session at the same time never overlap, and once both have returned both
\* commands have succeeded against a server that follows the protocol and the
\* counter is initialpc + 2 + 2 * 2.
C11_RoundTripsExclusive ==
    /\ \A c \in Callers : \A d \in Callers \ {c} :
           callers[c].at \in {"idle", "done"} \/ callers[d].at \in {"idle", "done"}
    /\ (\A c \in Callers : callers[c].at = "done") =>
           /\ \A c \in Callers : callers[c].out = "ok"
           /\ pc = Plus(initialpc, 2 + 2 * Cardinality(Callers))

\* C21 (as amended): a command that returns an error leaves the counter (uint32
\* arithmetic) 1 above its value before the call when it fails before the counter
\* check (encryption, write, read, decoding, unexpected packet type, an error
\* surfaced from an "unknown"/"forbidden" response), and 2 above it when it fails on
\* a missing or mismatched pc or after the counter check has passed (a response of
\* the expected type and pc that carries an error field or lacks its obj).
C21_CounterAfterFailure ==
    (last.op \in Commands /\ last.out = "err") =>
        /\ last.corr \in {"encryption failed", "write", "read", "unsecure connection",
                          "json", "unexpected packet", "server error"} =>
               pc = Plus(last.pcBefore, 1)
        /\ last.corr \in {"missing pc", "pc mismatch"} => pc = Plus(last.pcBefore, 2)
        /\ last.corr = "" =>
               /\ last.err \in {"server error", "invalid response packet"}
               /\ last.typeOk
               /\ pc = Plus(last.pcBefore, 2)
        /\ pc \in {Plus(last.pcBefore, 1), Plus(last.pcBefore, 2)}

\* C21 witness: a command rejected through the error field of a response of the
\* expected type and pc returns an error with the counter 2 above its old value
C21_Witness ==
    /\ last.op \in Commands
    /\ last.out = "err"
    /\ last.corr = ""
    /\ last.err = "server error"
    /\ last.respErr
    /\ pc = Plus(last.pcBefore, 2)

\* C21 as claimed: a command failing on a write or read error, an unexpected packet
\* type or a server rejection leaves the counter 1 above its old value, and one
\* failing on a missing or mismatched pc 2 above it
C21_AsClaimed ==
    (last.op \in Commands /\ last.out = "err") =>
        /\ last.err \in {"encryption failed", "write", "read", "unsecure connection",
                         "unexpected packet", "server error"} =>
               pc = Plus(last.pcBefore, 1)
        /\ last.err \in {"missing pc", "pc mismatch"} => pc = Plus(last.pcBefore, 2)

====
